---- MODULE Spec2Model ----
(***************************************************************************)
(* A model of node-pdftk (src/index.js): the PdfTk request builder, the    *)
(* temp-file materializer of PdfTk.input, and the execution engine of      *)
(* output() with its stdout / stderr / close handlers.                     *)
(*                                                                         *)
(* JavaScript strings are modelled as sequences of atoms (an atom is a run *)
(* of characters that the program never looks inside): string              *)
(* concatenation is \o, String.prototype.includes(marker) is "the marker   *)
(* atom occurs", and split(' ') cuts at the " " atoms.                     *)
(***************************************************************************)
EXTENDS Integers, Sequences, FiniteSets, TLC

(* ---------------------------------------------------------------------- *)
(* Bounds                                                                  *)
(* ---------------------------------------------------------------------- *)
\* longest source list handed to PdfTk.input
MaxSrc == 2
\* calls (chainable or terminal) made on one Request
MaxOps == 3
\* terminal calls (output / burst / unpackFiles) made on one Request
MaxExecs == 2
\* data events (stdout or stderr chunks) delivered to the executions
MaxData == 2
\* tokens of the argument of a page-range operation
MaxTokens == 2
\* properties of the object given to updateInfo
MaxPairs == 2

(* ---------------------------------------------------------------------- *)
(* Values                                                                  *)
(* ---------------------------------------------------------------------- *)
\* JavaScript undefined / null (an absent argument, an unset member)
Undefined == <<"undefined">>

Str(a) == <<a>>

\* the literal 'node-pdftk-tmp' that _checkForTempFiles looks for
TmpMarker == "node-pdftk-tmp"

RECURSIVE Flatten(_)
\* Array.prototype.concat / Buffer.concat / join('') of a list of sequences
Flatten(ss) == IF ss = <<>> THEN <<>> ELSE Head(ss) \o Flatten(Tail(ss))

\* String.prototype.includes
Includes(s, atom) == \E i \in 1..Len(s) : s[i] = atom

\* path.join(__dirname, './node-pdftk-tmp/')
tmpPath == <<"__dirname/", TmpMarker, "/">>

\* a temp file name that is the same at every draw
tmpFileFixed(n) == tmpPath \o <<"0", ".pdf">>

\* `${tmpPath}${uniqueId}.pdf`, uniqueId being the hex of 16 random bytes:
\* the n-th draw is modelled as a name no earlier draw produced
tmpFileName(n) == tmpPath \o <<ToString(n), ".pdf">>

\* paths of the caller
PathA == Str("a.pdf")
PathB == Str("b.pdf")
PathMissing == Str("missing.pdf")
\* a file of the caller that happens to live in a directory of the marker's name
PathUserTmp == <<"work/", TmpMarker, "/", "u.pdf">>
PathOut == Str("out.pdf")
DirOut == Str("outdir/")

\* input specifiers: a Buffer, a bare path, a handle map (own enumerable
\* properties in insertion order)
BufItem(d) == [type |-> "buffer", data |-> d]
StrItem(p) == [type |-> "string", val |-> p]
ObjItem(hs) == [type |-> "object", handles |-> hs]

(* ---------------------------------------------------------------------- *)
(* State                                                                   *)
(* ---------------------------------------------------------------------- *)
Reqs == {1, 2}

VARIABLES
    fs,         \* the filesystem: existing path -> content
    nextId,     \* number of unique ids drawn so far by PdfTk.input
    host,       \* "ok"; after an exception escaped an event handler: "dead"
                \* (the node process ended) or "survived" (the embedding
                \* program handles uncaughtException)
    req,        \* the PdfTk instances: src, tmpFiles, args, postArgs, stdin
    call,       \* per Request: what the caller has called so far (history)
    execs       \* the executions started by output(): child process + promise

vars == <<fs, nextId, host, req, call, execs>>

existsSync(f, p) == p \in DOMAIN f

\* fs.writeFileSync / a completed fs.writeFile
writeFileSync(f, p, d) == [q \in DOMAIN f \cup {p} |-> IF q = p THEN d ELSE f[q]]

\* a successful fs.unlinkSync
unlinkSync(f, p) == [q \in DOMAIN f \ {p} |-> f[q]]

\* the files present before the program runs
InitFs == [p \in {PathA, PathB, PathUserTmp} |->
              IF p = PathA THEN Str("A") ELSE IF p = PathB THEN Str("B") ELSE Str("U")]

NoReq == [st |-> "none", src |-> <<>>, tmpFiles |-> <<>>, args |-> <<>>,
          postArgs |-> <<>>, stdin |-> Undefined]

\* history of the caller's calls on a Request: the argument of PdfTk.input
\* and the temp files that call wrote, the tokens of the leaf operations and
\* of the flag operations in call order, the number of calls, and the calls
\* made with an argument the method must refuse (with whether it threw)
NoCall == [srcArg |-> <<>>, made |-> <<>>, leaf |-> <<>>, flags |-> <<>>,
           ops |-> 0, invalid |-> <<>>, ranged |-> <<>>, stdins |-> <<>>,
           payload |-> Undefined]

hostAlive == host # "dead"

Init ==
    /\ fs = InitFs
    /\ nextId = 0
    /\ host = "ok"
    /\ req = [r \in Reqs |-> NoReq]
    /\ call = [r \in Reqs |-> NoCall]
    /\ execs = <<>>

(* ---------------------------------------------------------------------- *)
(* PdfTk.input and the constructor                                         *)
(* ---------------------------------------------------------------------- *)
RECURSIVE HandleLoop(_, _, _)
\* for (const handle in srcFile): the first missing path throws
HandleLoop(hs, f, input) ==
    IF hs = <<>> THEN [threw |-> FALSE, input |-> input]
    ELSE IF ~existsSync(f, Head(hs)[2]) THEN [threw |-> TRUE, input |-> input]
    ELSE HandleLoop(Tail(hs), f, Append(input, <<Head(hs)[1], "=">> \o Head(hs)[2]))

RECURSIVE InputLoop(_, _, _, _, _)
\* for (const srcFile of src): a Buffer is written to a fresh temp file at
\* once, a path is checked for existence; the first missing path throws and
\* leaves the loop with what was written so far
InputLoop(items, f, n, input, made) ==
    IF items = <<>>
    THEN [threw |-> FALSE, fs |-> f, nextId |-> n, input |-> input, made |-> made]
    ELSE LET it == Head(items) IN
        CASE it.type = "buffer" ->
                InputLoop(Tail(items), writeFileSync(f, tmpFileName(n + 1), it.data),
                          n + 1, Append(input, tmpFileName(n + 1)),
                          Append(made, tmpFileName(n + 1)))
          [] it.type = "object" ->
                LET h == HandleLoop(it.handles, f, input) IN
                IF h.threw
                THEN [threw |-> TRUE, fs |-> f, nextId |-> n, input |-> h.input,
                      made |-> made]
                ELSE InputLoop(Tail(items), f, n, h.input, made)
          [] OTHER ->
                IF ~existsSync(f, it.val)
                THEN [threw |-> TRUE, fs |-> f, nextId |-> n, input |-> input,
                      made |-> made]
                ELSE InputLoop(Tail(items), f, n, Append(input, it.val), made)

\* a constructor that forgets to record the temp files
checkForNoTempFiles(s) == <<>>

\* _checkForTempFiles: every source that includes the marker is a temp file
_checkForTempFiles(s) == SelectSeq(s, LAMBDA x : Includes(x, TmpMarker))

\* constructor(src)
constructor(s) ==
    [st |-> "ok", src |-> s, tmpFiles |-> _checkForTempFiles(s), args |-> s,
     postArgs |-> <<>>, stdin |-> Undefined]

\* static input(src): src is a list of specifiers (a single specifier is
\* wrapped into a list first)
Input(r, srcArg) ==
    /\ hostAlive
    /\ req[r].st = "none"
    /\ LET res == InputLoop(srcArg, fs, nextId, <<>>, <<>>) IN
        /\ fs' = res.fs
        /\ nextId' = res.nextId
        /\ req' = [req EXCEPT ![r] =
                      IF res.threw THEN [NoReq EXCEPT !.st = "threw"]
                      ELSE constructor(res.input)]
        /\ call' = [call EXCEPT ![r].srcArg = srcArg, ![r].made = res.made]
    /\ UNCHANGED <<host, execs>>

(* ---------------------------------------------------------------------- *)
(* The chainable operations                                                *)
(* ---------------------------------------------------------------------- *)
\* arguments of the methods: a JavaScript value with its type
StrArg(s) == [type |-> "string", val |-> s]
ArrArg(xs) == [type |-> "array", val |-> xs]
BufArg(d) == [type |-> "buffer", val |-> d]
ObjArg(kv) == [type |-> "object", val |-> kv]
NoArg == [type |-> "undefined", val |-> <<>>]

\* a split that returns the whole string as its only piece
SplitNone(s, sep) == <<s>>

RECURSIVE Split(_, _)
\* String.prototype.split(sep) for a one-character separator: the pieces
\* between the separators, empty pieces included
Split(s, sep) ==
    IF \A i \in 1..Len(s) : s[i] # sep THEN <<s>>
    ELSE LET k == CHOOSE i \in 1..Len(s) :
                      s[i] = sep /\ \A j \in 1..(i - 1) : s[j] # sep
         IN <<SubSeq(s, 1, k - 1)>> \o Split(SubSeq(s, k + 1, Len(s)), sep)

RECURSIVE Join(_, _)
\* Array.prototype.join(sep)
Join(xs, sep) ==
    IF xs = <<>> THEN <<>>
    ELSE IF Len(xs) = 1 THEN xs[1]
    ELSE xs[1] \o <<sep>> \o Join(Tail(xs), sep)

\* a chainable call may be made on a constructed Request
CanCall(r) == hostAlive /\ req[r].st = "ok" /\ call[r].ops < MaxOps

\* a leaf operation that puts its tokens in front of this.args
ArgsUnshift(r, toks) ==
    /\ CanCall(r)
    /\ req' = [req EXCEPT ![r].args = toks \o @]
    /\ call' = [call EXCEPT ![r].leaf = @ \o toks, ![r].ops = @ + 1]
    /\ UNCHANGED <<fs, nextId, host, execs>>

\* this.args.push(...toks) of a leaf operation
ArgsPush(r, toks) ==
    /\ CanCall(r)
    /\ req' = [req EXCEPT ![r].args = @ \o toks]
    /\ call' = [call EXCEPT ![r].leaf = @ \o toks, ![r].ops = @ + 1]
    /\ UNCHANGED <<fs, nextId, host, execs>>

\* a flag operation that pushes onto this.args instead of this.postArgs
PostPushToArgs(r, toks) ==
    /\ CanCall(r)
    /\ req' = [req EXCEPT ![r].args = @ \o toks]
    /\ call' = [call EXCEPT ![r].flags = @ \o toks, ![r].ops = @ + 1]
    /\ UNCHANGED <<fs, nextId, host, execs>>

\* this.postArgs.push(...toks) of an output-shaping operation
PostPush(r, toks) ==
    /\ CanCall(r)
    /\ req' = [req EXCEPT ![r].postArgs = @ \o toks]
    /\ call' = [call EXCEPT ![r].flags = @ \o toks, ![r].ops = @ + 1]
    /\ UNCHANGED <<fs, nextId, host, execs>>

\* a method that throws to its caller before it changes the Request
Throws(r, name) ==
    /\ CanCall(r)
    /\ call' = [call EXCEPT ![r].invalid = Append(@, [op |-> name, threw |-> TRUE]),
                            ![r].ops = @ + 1]
    /\ UNCHANGED <<fs, nextId, host, req, execs>>

\* cat / shuffle / rotate: the keyword, then each element of the list, or of
\* the string split at ' '
RangeTokens(keyword, cmd) ==
    <<Str(keyword)>> \o (IF cmd.type = "array" THEN cmd.val ELSE Split(cmd.val, " "))

\* the body shared by cat, shuffle and rotate; call[r].ranged keeps the type
\* of the argument of each such call
RangeOp(r, keyword, cmd) ==
    /\ CanCall(r)
    /\ req' = [req EXCEPT ![r].args = @ \o RangeTokens(keyword, cmd)]
    /\ call' = [call EXCEPT ![r].leaf = @ \o RangeTokens(keyword, cmd),
                            ![r].ops = @ + 1,
                            ![r].ranged = Append(@, cmd.type)]
    /\ UNCHANGED <<fs, nextId, host, execs>>

cat(r, catCommand) == RangeOp(r, "cat", catCommand)

shuffle(r, shuffleCommand) == RangeOp(r, "shuffle", shuffleCommand)

rotate(r, rotateCommand) == RangeOp(r, "rotate", rotateCommand)

generateFdf(r) == ArgsPush(r, <<Str("generate_fdf")>>)

RECURSIVE FdfBody(_)
\* the loop of generateFdfFromJSON: one /T (key) /V (value) record per property
FdfBody(data) ==
    IF data = <<>> THEN <<>>
    ELSE <<"<<\n/T (">> \o Head(data)[1] \o <<")\n/V (">> \o Head(data)[2]
         \o <<")\n>>\n">> \o FdfBody(Tail(data))

\* static generateFdfFromJSON(data): header, body, footer
generateFdfFromJSON(data) ==
    <<"%FDF-1.2 header">> \o FdfBody(data) \o <<"]>>>>endobj trailer %%EOF">>

RECURSIVE generateInfoUnterminated(_)
\* an encoder that leaves out the buffer '\n' that ends each InfoValue line
generateInfoUnterminated(data) ==
    IF data = <<>> THEN <<>>
    ELSE <<"InfoBegin", "\n", "InfoKey: ">> \o Head(data)[1]
         \o <<"\n", "InfoValue: ">> \o Head(data)[2]
         \o generateInfoUnterminated(Tail(data))

RECURSIVE generateInfoFromJSON(_)
\* static generateInfoFromJSON(data): per property the five buffers
\* 'InfoBegin\nInfoKey: ', key, '\nInfoValue: ', value, '\n'
generateInfoFromJSON(data) ==
    IF data = <<>> THEN <<>>
    ELSE <<"InfoBegin", "\n", "InfoKey: ">> \o Head(data)[1]
         \o <<"\n", "InfoValue: ">> \o Head(data)[2] \o <<"\n">>
         \o generateInfoFromJSON(Tail(data))

\* static toBuffer(file): a string is a path to read, anything else is kept
toBuffer(f, file) == IF file.type = "string" THEN f[file.val] ELSE file.val

\* a _commandWithStdin that keeps a payload already set
commandWithStdinKeepFirst(r, command, file) ==
    IF file.type = "string" /\ ~existsSync(fs, file.val)
    THEN Throws(r, command)
    ELSE /\ CanCall(r)
         /\ req' = [req EXCEPT ![r].stdin = IF @ = Undefined THEN toBuffer(fs, file) ELSE @,
                               ![r].args = @ \o <<Str(command), Str("-")>>]
         /\ call' = [call EXCEPT ![r].leaf = @ \o <<Str(command), Str("-")>>,
                                 ![r].ops = @ + 1,
                                 ![r].stdins = Append(@, Str(command)),
                                 ![r].payload = toBuffer(fs, file)]
         /\ UNCHANGED <<fs, nextId, host, execs>>

\* _commandWithStdin(command, file); fs.readFileSync throws on a missing path;
\* call[r].stdins keeps the command of each call, call[r].payload the file
\* content handed to the last one
_commandWithStdin(r, command, file) ==
    IF file.type = "string" /\ ~existsSync(fs, file.val)
    THEN Throws(r, command)
    ELSE /\ CanCall(r)
         /\ req' = [req EXCEPT ![r].stdin = toBuffer(fs, file),
                               ![r].args = @ \o <<Str(command), Str("-")>>]
         /\ call' = [call EXCEPT ![r].leaf = @ \o <<Str(command), Str("-")>>,
                                 ![r].ops = @ + 1,
                                 ![r].stdins = Append(@, Str(command)),
                                 ![r].payload = toBuffer(fs, file)]
         /\ UNCHANGED <<fs, nextId, host, execs>>

fillForm(r, data) ==
    _commandWithStdin(r, "fill_form",
        IF data.type = "string" THEN data ELSE BufArg(generateFdfFromJSON(data.val)))

background(r, file) == _commandWithStdin(r, "background", file)

multiBackground(r, file) == _commandWithStdin(r, "multibackground", file)

stamp(r, file) == _commandWithStdin(r, "stamp", file)

multiStamp(r, file) == _commandWithStdin(r, "multistamp", file)

dumpData(r) == ArgsPush(r, <<Str("dump_data")>>)

dumpDataUtf8(r) == ArgsPush(r, <<Str("dump_data_utf8")>>)

dumpDataFields(r) == ArgsPush(r, <<Str("dump_data_fields")>>)

dumpDataFieldsUtf8(r) == ArgsPush(r, <<Str("dump_data_fields_utf8")>>)

dumpDataAnnots(r) == ArgsPush(r, <<Str("dump_data_annots")>>)

updateInfo(r, data) ==
    _commandWithStdin(r, "update_info",
        IF data.type = "string" THEN data ELSE BufArg(generateInfoFromJSON(data.val)))

updateInfoUtf8(r, data) ==
    _commandWithStdin(r, "update_info_utf8",
        IF data.type = "string" THEN data ELSE BufArg(generateInfoFromJSON(data.val)))

\* attachFiles without its guard: an empty or absent list pushes the keyword
attachFilesUnchecked(r, files) ==
    /\ CanCall(r)
    /\ LET toks == <<Str("attach_files")>>
                   \o (IF files.type = "array" THEN files.val
                       ELSE IF files.type = "undefined" THEN <<>> ELSE <<files.val>>)
           bad == files.type = "undefined" \/ Len(files.val) = 0
       IN /\ req' = [req EXCEPT ![r].args = @ \o toks]
          /\ call' = [call EXCEPT
                ![r].leaf = @ \o toks, ![r].ops = @ + 1,
                ![r].invalid = IF bad
                               THEN Append(@, [op |-> "attachFiles", threw |-> FALSE])
                               ELSE @]
    /\ UNCHANGED <<fs, nextId, host, execs>>

\* attachFiles(files): !files || !files.length throws; a string is wrapped
attachFiles(r, files) ==
    IF files.type = "undefined" \/ Len(files.val) = 0
    THEN Throws(r, "attachFiles")
    ELSE ArgsPush(r, <<Str("attach_files")>>
                     \o (IF files.type = "array" THEN files.val ELSE <<files.val>>))

toPage(r, pageNo) == ArgsPush(r, <<Str("to_page"), pageNo>>)

flatten(r) == PostPush(r, <<Str("flatten")>>)

needAppearances(r) == PostPush(r, <<Str("need_appearances")>>)

compress(r) == PostPush(r, <<Str("compress")>>)

uncompress(r) == PostPush(r, <<Str("uncompress")>>)

keepFirstId(r) == PostPush(r, <<Str("keep_first_id")>>)

keepFinalId(r) == PostPush(r, <<Str("keep_final_id")>>)

dropXfa(r) == PostPush(r, <<Str("drop_xfa")>>)

verbose(r) == PostPush(r, <<Str("verbose")>>)

dontAsk(r) == PostPush(r, <<Str("dont_ask")>>)

doAsk(r) == PostPush(r, <<Str("do_ask")>>)

inputPw(r, password) == PostPush(r, <<Str("input_pw"), password>>)

userPw(r, password) == PostPush(r, <<Str("user_pw"), password>>)

ownerPw(r, password) == PostPush(r, <<Str("owner_pw"), password>>)

allow(r, perms) ==
    PostPush(r, <<Str("allow"),
                  IF perms.type = "array" THEN Join(perms.val, " ") ELSE perms.val>>)

encrypt40Bit(r) == PostPush(r, <<Str("encrypt_40bit")>>)

encrypt128Bit(r) == PostPush(r, <<Str("encrypt_128bit")>>)

(* ---------------------------------------------------------------------- *)
(* The execution engine                                                    *)
(* ---------------------------------------------------------------------- *)
\* exit codes with which the child process closes
ExitCodes == {0, 1}

\* the k-th chunk the child process of an execution writes
Chunk(k) == Str(ToString(k))

\* the error with which fs.writeFile fails
WriteError == Str("EIO")

Pending == [state |-> "pending", kind |-> "none", data |-> <<>>, code |-> 0]

\* a promise that every resolve / reject settles anew
SettleAgain(p, state, kind, data, code) ==
    [state |-> state, kind |-> kind, data |-> data, code |-> code]

\* resolve(value) / reject(value) of a promise settle it only while it is
\* pending; a later call is ignored
Settle(p, state, kind, data, code) ==
    IF p.state = "pending"
    THEN [state |-> state, kind |-> kind, data |-> data, code |-> code]
    ELSE p

resolve(p, output) == Settle(p, "resolved", "buffer", output, 0)

RejectData(p, data) == Settle(p, "rejected", "buffer", data, 0)

RejectCode(p, code) == Settle(p, "rejected", "code", <<>>, code)

RejectErr(p, err) == Settle(p, "rejected", "error", err, 0)

RECURSIVE CleanUpLoop(_, _, _)
\* the loop of _cleanUpTempFiles: fs.unlinkSync of a path that does not exist
\* throws ENOENT and ends the loop
CleanUpLoop(tmp, f, tried) ==
    IF tmp = <<>> THEN [fs |-> f, tried |-> tried, threw |-> FALSE]
    ELSE IF ~existsSync(f, Head(tmp))
         THEN [fs |-> f, tried |-> Append(tried, Head(tmp)), threw |-> TRUE]
         ELSE CleanUpLoop(Tail(tmp), unlinkSync(f, Head(tmp)), Append(tried, Head(tmp)))

\* a clean-up that deletes nothing
cleanUpNothing(tmp, f) == [fs |-> f, tried |-> <<>>, threw |-> FALSE]

\* _cleanUpTempFiles()
_cleanUpTempFiles(tmp, f) == CleanUpLoop(tmp, f, <<>>)

ExecsOf(r) == {e \in 1..Len(execs) : execs[e].r = r}

\* outputDest || '-'
DestToken(outputDest) ==
    IF outputDest.type = "undefined" \/ outputDest.val = <<>>
    THEN Str("-") ELSE outputDest.val

\* an output that spawns with a copy of this.args and leaves this.args as it
\* was
RunOnCopy(r, keyword, writeFile, outputDest) ==
    /\ hostAlive
    /\ req[r].st = "ok"
    /\ call[r].ops < MaxOps
    /\ Cardinality(ExecsOf(r)) < MaxExecs
    /\ LET argv == req[r].args \o keyword
                   \o <<Str("output"), DestToken(outputDest)>> \o req[r].postArgs
       IN /\ req' = req
          /\ execs' = Append(execs,
                [r |-> r, argv |-> argv, writeFile |-> writeFile, kw |-> keyword,
                 dest |-> outputDest, leafSnap |-> call[r].leaf \o keyword,
                 flagSnap |-> call[r].flags, nth |-> Cardinality(ExecsOf(r)) + 1,
                 stdinWritten |-> req[r].stdin,
                 stdinEnded |-> req[r].stdin # Undefined,
                 result |-> <<>>, nData |-> 0, errs |-> <<>>, closed |-> FALSE,
                 code |-> 0, writing |-> FALSE, wrote |-> "no", tried |-> <<>>,
                 threw |-> FALSE, promise |-> Pending])
    /\ call' = [call EXCEPT ![r].leaf = @ \o keyword, ![r].ops = @ + 1]
    /\ UNCHANGED <<fs, nextId, host>>

\* the body of output(writeFile, outputDest) up to the return of the
\* promise, after the calling method pushed `keyword` (burst, unpackFiles):
\* the argument vector is completed, the child is spawned with it, the
\* handlers are registered and the stdin payload, if any, is written and ended
Run(r, keyword, writeFile, outputDest) ==
    /\ hostAlive
    /\ req[r].st = "ok"
    /\ call[r].ops < MaxOps
    /\ Cardinality(ExecsOf(r)) < MaxExecs
    /\ LET argv == req[r].args \o keyword
                   \o <<Str("output"), DestToken(outputDest)>> \o req[r].postArgs
       IN /\ req' = [req EXCEPT ![r].args = argv]
          /\ execs' = Append(execs,
                [r |-> r, argv |-> argv, writeFile |-> writeFile, kw |-> keyword,
                 dest |-> outputDest, leafSnap |-> call[r].leaf \o keyword,
                 flagSnap |-> call[r].flags, nth |-> Cardinality(ExecsOf(r)) + 1,
                 stdinWritten |-> req[r].stdin,
                 stdinEnded |-> req[r].stdin # Undefined,
                 result |-> <<>>, nData |-> 0, errs |-> <<>>, closed |-> FALSE,
                 code |-> 0, writing |-> FALSE, wrote |-> "no", tried |-> <<>>,
                 threw |-> FALSE, promise |-> Pending])
    /\ call' = [call EXCEPT ![r].leaf = @ \o keyword, ![r].ops = @ + 1]
    /\ UNCHANGED <<fs, nextId, host>>

\* output(writeFile, outputDest)
output(r, writeFile, outputDest) == Run(r, <<>>, writeFile, outputDest)

\* a burst that hands its options to output as writeFile
burstDestAsWriteFile(r, outputOptions) ==
    Run(r, <<Str("burst")>>,
        IF outputOptions.type = "array" THEN Join(outputOptions.val, " ")
        ELSE IF outputOptions.type = "undefined" THEN Undefined ELSE outputOptions.val,
        NoArg)

\* burst(outputOptions): pushes 'burst' and returns output(null, outputOptions)
burst(r, outputOptions) ==
    Run(r, <<Str("burst")>>, Undefined,
        IF outputOptions.type = "array"
        THEN StrArg(Join(outputOptions.val, " ")) ELSE outputOptions)

\* unpackFiles(outputDir): pushes 'unpack_files' and returns output(null, outputDir)
unpackFiles(r, outputDir) == Run(r, <<Str("unpack_files")>>, Undefined, outputDir)

RECURSIVE DataEvents(_)
\* number of data events delivered so far to the executions e..Len(execs)
DataEvents(e) == IF e > Len(execs) THEN 0 ELSE execs[e].nData + DataEvents(e + 1)

\* an exception that escapes an event handler: the node process ends unless
\* the embedding program handles uncaughtException
Uncaught == host' \in {"dead", "survived"}

\* child.stdout.on('data', data => result.push(new Buffer(data)))
StdoutData(e) ==
    /\ hostAlive
    /\ ~execs[e].closed
    /\ DataEvents(1) < MaxData
    /\ execs' = [execs EXCEPT ![e].result = Append(@, Chunk(execs[e].nData + 1)),
                              ![e].nData = @ + 1]
    /\ UNCHANGED <<fs, nextId, host, req, call>>

\* child.stderr.on('data', data => { this._cleanUpTempFiles(); return reject(data); })
StderrData(e) ==
    /\ hostAlive
    /\ ~execs[e].closed
    /\ DataEvents(1) < MaxData
    /\ LET data == Chunk(execs[e].nData + 1)
           c == _cleanUpTempFiles(req[execs[e].r].tmpFiles, fs)
       IN /\ fs' = c.fs
          /\ IF c.threw
             THEN /\ Uncaught
                  /\ execs' = [execs EXCEPT ![e].nData = @ + 1,
                                            ![e].errs = Append(@, data),
                                            ![e].tried = @ \o c.tried,
                                            ![e].threw = TRUE]
             ELSE /\ host' = host
                  /\ execs' = [execs EXCEPT ![e].nData = @ + 1,
                                            ![e].errs = Append(@, data),
                                            ![e].tried = @ \o c.tried,
                                            ![e].promise = RejectData(@, data)]
    /\ UNCHANGED <<nextId, req, call>>

\* child.on('close', code => ...): clean up, then resolve with the
\* concatenated output (after writing it to writeFile, if given) on code 0,
\* reject with the code otherwise
Close(e, code) ==
    /\ hostAlive
    /\ ~execs[e].closed
    /\ LET c == _cleanUpTempFiles(req[execs[e].r].tmpFiles, fs)
           out == Flatten(execs[e].result)
       IN /\ fs' = c.fs
          /\ IF c.threw
             THEN /\ Uncaught
                  /\ execs' = [execs EXCEPT ![e].closed = TRUE, ![e].code = code,
                                            ![e].tried = @ \o c.tried,
                                            ![e].threw = TRUE]
             ELSE /\ host' = host
                  /\ execs' = [execs EXCEPT
                        ![e].closed = TRUE, ![e].code = code,
                        ![e].tried = @ \o c.tried,
                        ![e].writing = (code = 0 /\ execs[e].writeFile # Undefined),
                        ![e].promise =
                            IF code = 0
                            THEN IF execs[e].writeFile # Undefined THEN @
                                 ELSE resolve(@, out)
                            ELSE RejectCode(@, code)]
    /\ UNCHANGED <<nextId, req, call>>

\* a callback of fs.writeFile that resolves without the file being written
WriteFileSkipped(e, failed) ==
    /\ hostAlive
    /\ execs[e].writing
    /\ execs' = [execs EXCEPT
          ![e].writing = FALSE,
          ![e].wrote = IF failed THEN "failed" ELSE "ok",
          ![e].promise = IF failed THEN RejectErr(@, WriteError)
                         ELSE resolve(@, Flatten(execs[e].result))]
    /\ UNCHANGED <<fs, nextId, host, req, call>>

\* a callback of fs.writeFile that ignores its err argument
WriteFileErrIgnored(e, failed) ==
    /\ hostAlive
    /\ execs[e].writing
    /\ LET out == Flatten(execs[e].result) IN
        /\ fs' = IF failed THEN fs ELSE writeFileSync(fs, execs[e].writeFile, out)
        /\ execs' = [execs EXCEPT
              ![e].writing = FALSE,
              ![e].wrote = IF failed THEN "failed" ELSE "ok",
              ![e].promise = resolve(@, out)]
    /\ UNCHANGED <<nextId, host, req, call>>

\* the callback of fs.writeFile(writeFile, output, err => ...)
WriteFileDone(e, failed) ==
    /\ hostAlive
    /\ execs[e].writing
    /\ LET out == Flatten(execs[e].result) IN
        /\ fs' = IF failed THEN fs ELSE writeFileSync(fs, execs[e].writeFile, out)
        /\ execs' = [execs EXCEPT
              ![e].writing = FALSE,
              ![e].wrote = IF failed THEN "failed" ELSE "ok",
              ![e].promise = IF failed THEN RejectErr(@, WriteError)
                             ELSE resolve(@, out)]
    /\ UNCHANGED <<nextId, host, req, call>>

(* ---------------------------------------------------------------------- *)
(* Specifications                                                          *)
(* ---------------------------------------------------------------------- *)
Buf1 == Str("pdf1")
Buf2 == Str("pdf2")

\* source lists of the executions' specification
ExecSrcLists ==
    { <<StrItem(PathA)>>,
      <<BufItem(Buf1)>>,
      <<BufItem(Buf1), BufItem(Buf2)>>,
      <<StrItem(PathUserTmp)>>,
      <<ObjItem(<< <<"A", PathUserTmp>> >>)>> }

Execs == 1..Len(execs)

\* one Request, from PdfTk.input to the outcome of its executions
Next ==
    \/ \E srcArg \in ExecSrcLists : Input(1, srcArg)
    \/ \E writeFile \in {Undefined, PathOut} : output(1, writeFile, NoArg)
    \/ burst(1, StrArg(DirOut))
    \/ \E e \in Execs : StdoutData(e)
    \/ \E e \in Execs : StderrData(e)
    \/ \E e \in Execs, code \in ExitCodes : Close(e, code)
    \/ \E e \in Execs, failed \in BOOLEAN : WriteFileDone(e, failed)

Spec == Init /\ [][Next]_vars

\* source lists of the builder's specification
BuildSrcLists ==
    { <<StrItem(PathA), StrItem(PathB)>>,
      <<BufItem(Buf1)>> }

FormData == << <<Str("name"), Str("Ann")>>, <<Str("city"), Str("Oslo")>> >>

\* one Request, from PdfTk.input through the chainable operations to the
\* spawn of its executions
NextBuild ==
    \/ \E srcArg \in BuildSrcLists : Input(1, srcArg)
    \/ cat(1, StrArg(<<"1-5", " ", "end">>))
    \/ shuffle(1, StrArg(<<"A", " ", "B">>))
    \/ rotate(1, ArrArg(<<Str("1east")>>))
    \/ generateFdf(1)
    \/ fillForm(1, ObjArg(FormData))
    \/ \E f \in {BufArg(Str("bg")), StrArg(PathMissing)} : background(1, f)
    \/ multiBackground(1, BufArg(Str("mbg")))
    \/ stamp(1, StrArg(PathB))
    \/ multiStamp(1, BufArg(Str("mst")))
    \/ dumpData(1)
    \/ dumpDataUtf8(1)
    \/ dumpDataFields(1)
    \/ dumpDataFieldsUtf8(1)
    \/ dumpDataAnnots(1)
    \/ updateInfo(1, ObjArg(FormData))
    \/ updateInfoUtf8(1, ObjArg(<< <<Str("Title"), Str("T")>> >>))
    \/ \E f \in {NoArg, ArrArg(<<>>), StrArg(PathA), ArrArg(<<PathA, PathB>>)} :
          attachFiles(1, f)
    \/ toPage(1, Str("2"))
    \/ flatten(1)
    \/ needAppearances(1)
    \/ compress(1)
    \/ uncompress(1)
    \/ keepFirstId(1)
    \/ keepFinalId(1)
    \/ dropXfa(1)
    \/ verbose(1)
    \/ dontAsk(1)
    \/ doAsk(1)
    \/ inputPw(1, Str("pw1"))
    \/ userPw(1, Str("pw2"))
    \/ ownerPw(1, Str("pw3"))
    \/ allow(1, ArrArg(<<Str("Printing"), Str("CopyContents")>>))
    \/ encrypt40Bit(1)
    \/ encrypt128Bit(1)
    \/ \E d \in {NoArg, StrArg(PathOut)} : output(1, Undefined, d)
    \/ \E d \in {NoArg, ArrArg(<<Str("pg"), Str("%02d.pdf")>>)} : burst(1, d)
    \/ unpackFiles(1, StrArg(DirOut))

SpecBuild == Init /\ [][NextBuild]_vars

RECURSIVE Lists(_, _)
\* the lists of at most n elements of S
Lists(S, n) ==
    IF n = 0 THEN {<<>>}
    ELSE Lists(S, n - 1) \cup {Append(l, x) : l \in Lists(S, n - 1), x \in S}

\* the input specifiers of the construction's specification
SrcItems ==
    { BufItem(Buf1), BufItem(Buf2), StrItem(PathA), StrItem(PathMissing),
      StrItem(PathUserTmp),
      ObjItem(<< <<"A", PathA>>, <<"B", PathB>> >>),
      ObjItem(<< <<"A", PathMissing>> >>) }

\* PdfTk.input on every source list, then the spawn of the Request's executions
NextInput ==
    \/ \E srcArg \in Lists(SrcItems, MaxSrc) : Input(1, srcArg)
    \/ output(1, Undefined, NoArg)

SpecInput == Init /\ [][NextInput]_vars

\* the executions of Spec, the event loop running every pending callback of
\* fs.writeFile
WriteFileCallback == \E e \in Execs, failed \in BOOLEAN : WriteFileDone(e, failed)

SpecLive == Init /\ [][Next]_vars /\ WF_vars(WriteFileCallback)

\* one Request with a stdin payload, from PdfTk.input to the outcome of its
\* executions
NextStdin ==
    \/ \E srcArg \in {<<StrItem(PathA)>>, <<BufItem(Buf1)>>} : Input(1, srcArg)
    \/ background(1, StrArg(PathB))
    \/ \E writeFile \in {Undefined, PathOut} : output(1, writeFile, NoArg)
    \/ \E e \in Execs : StdoutData(e)
    \/ \E e \in Execs : StderrData(e)
    \/ \E e \in Execs, code \in ExitCodes : Close(e, code)
    \/ \E e \in Execs, failed \in BOOLEAN : WriteFileDone(e, failed)

SpecStdin == Init /\ [][NextStdin]_vars

\* the page-range tokens and the lists of at most MaxTokens of them
RangeAtoms == {Str("1-2"), Str("end")}
TokenLists == Lists(RangeAtoms, MaxTokens)
RangeCommands == {ArrArg(l) : l \in TokenLists} \cup {StrArg(Join(l, " ")) : l \in TokenLists}

\* page-range strings whose tokens are separated by two spaces, by a tab, or
\* are followed by a space
SpacedStrings ==
    {<<"1-2", " ", " ", "end">>, <<"1-2", "\t", "end">>, <<"1-2", " ">>}

\* one Request given one page-range operation, with a list or with a string,
\* among other calls
NextRange ==
    \/ Input(1, <<StrItem(PathA)>>)
    \/ /\ call[1].ranged = <<>>
       /\ \E c \in RangeCommands : cat(1, c) \/ shuffle(1, c) \/ rotate(1, c)
    \/ /\ call[1].ranged = <<>>
       /\ \E s \in SpacedStrings :
             cat(1, StrArg(s)) \/ shuffle(1, StrArg(s)) \/ rotate(1, StrArg(s))
    \/ flatten(1)
    \/ output(1, Undefined, NoArg)

SpecRange == Init /\ [][NextRange]_vars

\* two Requests, each constructed from its own Buffer, built (a stdin
\* operation on one, a flag on the other) and executed in any interleaving;
\* at most MaxExecs executions are started in all
NextConc ==
    \/ Input(1, <<BufItem(Buf1)>>)
    \/ Input(2, <<BufItem(Buf2)>>)
    \/ req[1].stdin = Undefined /\ stamp(1, BufArg(Str("S")))
    \/ req[2].postArgs = <<>> /\ flatten(2)
    \/ \E r \in Reqs : Len(execs) < MaxExecs /\ output(r, Undefined, NoArg)
    \/ \E e \in Execs : StderrData(e)
    \/ \E e \in Execs, code \in ExitCodes : Close(e, code)

SpecConc == Init /\ [][NextConc]_vars

\* the objects given to updateInfo, as the list of their properties in the
\* order for...in enumerates them: at most MaxPairs properties with distinct
\* keys; one of the values holds a newline
InfoPairs ==
    {<<Str("Title"), Str("Report")>>, <<Str("Author"), Str("Ann")>>,
     <<Str("Subject"), Str("Tax")>>, <<Str("Title"), <<"line1", "\n", "line2">> >>}
Mappings ==
    {m \in Lists(InfoPairs, MaxPairs) :
        \A i, j \in 1..Len(m) : i # j => m[i][1] # m[j][1]}

\* one Request given info objects through updateInfo / updateInfoUtf8
NextInfo ==
    \/ Input(1, <<StrItem(PathA)>>)
    \/ \E m \in Mappings : updateInfo(1, ObjArg(m))
    \/ \E m \in Mappings : updateInfoUtf8(1, ObjArg(m))

SpecInfo == Init /\ [][NextInfo]_vars

(* ---------------------------------------------------------------------- *)
(* Properties                                                              *)
(* ---------------------------------------------------------------------- *)
Count(x, seq) == Cardinality({i \in 1..Len(seq) : seq[i] = x})

TmpFilesOf(e) == req[execs[e].r].tmpFiles

Settled(e) == execs[e].promise.state # "pending"

\* C1: once an execution has reported its outcome (resolved on exit code 0,
\* rejected on a non-zero exit code or on stderr data), no path recorded in
\* the Request's tmpFiles exists in the filesystem.
C1_TempFilesAbsentAfterOutcome ==
    \A e \in Execs : Settled(e) =>
        \A i \in 1..Len(TmpFilesOf(e)) : ~existsSync(fs, TmpFilesOf(e)[i])

\* an execution of a Request with two temp files was rejected on stderr data
C1_Witness ==
    \E e \in Execs :
        /\ execs[e].promise.state = "rejected"
        /\ execs[e].promise.kind = "buffer"
        /\ Len(TmpFilesOf(e)) = 2
        /\ Len(execs[e].tried) = 2

\* C2: in every execution that has closed, the deletion of each temp path of
\* the Request was attempted exactly once, whatever stderr chunks came before.
C2_DeletionAttemptedOnce ==
    \A e \in Execs : execs[e].closed =>
        \A i \in 1..Len(TmpFilesOf(e)) : Count(TmpFilesOf(e)[i], execs[e].tried) = 1

\* C3: an execution that received stderr data has been rejected with that
\* data (its first chunk) as the detail.
C3_StderrRejects ==
    \A e \in Execs : execs[e].errs # <<>> =>
        /\ execs[e].promise.state = "rejected"
        /\ execs[e].promise.kind = "buffer"
        /\ execs[e].promise.data = execs[e].errs[1]

\* C4: an execution without stderr data and without writeFile that has closed
\* is resolved with the stdout chunks concatenated in arrival order if the
\* exit code is 0, and rejected with the exit code otherwise.
C4_CloseSettles ==
    \A e \in Execs :
        (execs[e].closed /\ execs[e].errs = <<>> /\ execs[e].writeFile = Undefined) =>
            IF execs[e].code = 0
            THEN /\ execs[e].promise.state = "resolved"
                 /\ execs[e].promise.data = Flatten(execs[e].result)
            ELSE /\ execs[e].promise.state = "rejected"
                 /\ execs[e].promise.kind = "code"
                 /\ execs[e].promise.code = execs[e].code

\* C5: an outcome, once reported, is never changed by a later event: a
\* settled promise keeps its state and its value in every step.
C5_OutcomeIsFinal ==
    [][\A e \in Execs : Settled(e) => execs'[e].promise = execs[e].promise]_vars

\* an execution rejected on stderr data later closed with exit code 0
C5_Witness ==
    \E e \in Execs :
        /\ execs[e].promise.state = "rejected"
        /\ execs[e].promise.kind = "buffer"
        /\ execs[e].closed
        /\ execs[e].code = 0
        /\ execs[e].result # <<>>

\* C6: the vector of a Request's first spawn is the sources, the leaf tokens
\* in call order, 'output', the destination ('-' if none was given), then the
\* flag tokens in call order.
C6_SpawnVector ==
    \A e \in Execs : execs[e].nth = 1 =>
        execs[e].argv =
            req[execs[e].r].src \o execs[e].leafSnap
            \o <<Str("output"),
                 IF execs[e].dest.type = "undefined" THEN Str("-") ELSE execs[e].dest.val>>
            \o execs[e].flagSnap

\* a first spawn after a leaf operation and a flag operation
C6_Witness ==
    \E e \in Execs :
        /\ execs[e].nth = 1
        /\ execs[e].leafSnap # <<>>
        /\ execs[e].flagSnap # <<>>
        /\ execs[e].dest.type # "undefined"

\* C7: every vector the process is spawned with holds exactly one 'output'
\* marker.
C7_OneOutputMarker ==
    \A e \in Execs : Count(Str("output"), execs[e].argv) = 1

\* C8: a PdfTk.input that failed on a missing path spawned nothing and left
\* none of the temp files it wrote on disk.
C8_FailedInputLeavesNothing ==
    req[1].st = "threw" =>
        /\ ExecsOf(1) = {}
        /\ \A i \in 1..Len(call[1].made) : ~existsSync(fs, call[1].made[i])

\* C9: a call of attachFiles with an empty or absent list throws, spawns
\* nothing and leaves args, postArgs and stdin as they were.
C9_AttachFilesEmptyThrows ==
    [][(/\ Len(call'[1].invalid) = Len(call[1].invalid) + 1
        /\ call'[1].invalid[Len(call'[1].invalid)].op = "attachFiles")
       => /\ call'[1].invalid[Len(call'[1].invalid)].threw
          /\ req' = req
          /\ execs' = execs]_vars

\* attachFiles threw on a Request that already carries operations
C9_Witness ==
    /\ \E i \in 1..Len(call[1].invalid) : call[1].invalid[i].op = "attachFiles"
    /\ call[1].leaf # <<>>
    /\ call[1].flags # <<>>

\* number of sources an input specifier becomes
Width(it) == IF it.type = "object" THEN Len(it.handles) ELSE 1

RECURSIVE Offset(_, _)
\* number of sources the specifiers before the i-th become
Offset(items, i) == IF i <= 1 THEN 0 ELSE Offset(items, i - 1) + Width(items[i - 1])

\* C10: a PdfTk.input that returns a Request has created exactly one new file
\* per Buffer, under the temp directory, with the Buffer as content; its path
\* stands at the Buffer's position in src and args and is in tmpFiles.
C10_BufferMaterialized ==
    [][(req[1].st = "none" /\ req'[1].st = "ok") =>
        LET items == call'[1].srcArg
            B == {i \in 1..Len(items) : items[i].type = "buffer"}
            P(i) == req'[1].src[Offset(items, i) + 1]
        IN /\ Cardinality(DOMAIN fs' \ DOMAIN fs) = Cardinality(B)
           /\ \A p \in DOMAIN fs : existsSync(fs', p) /\ fs'[p] = fs[p]
           /\ \A i \in B :
                /\ ~existsSync(fs, P(i))
                /\ existsSync(fs', P(i))
                /\ fs'[P(i)] = items[i].data
                /\ SubSeq(P(i), 1, Len(tmpPath)) = tmpPath
                /\ req'[1].args[Offset(items, i) + 1] = P(i)
                /\ Count(P(i), req'[1].tmpFiles) = 1
           /\ \A i, j \in B : i # j => P(i) # P(j)]_vars

\* a Request built from a handle map of two handles followed by a Buffer
C10_Witness ==
    /\ req[1].st = "ok"
    /\ Len(call[1].srcArg) = 2
    /\ call[1].srcArg[1].type = "object"
    /\ call[1].srcArg[2].type = "buffer"
    /\ req[1].tmpFiles # <<>>

\* C11: an execution started on a Request with a stdin payload has written
\* exactly that payload to the child's stdin and ended stdin (nothing is
\* written when no payload is set); and an execution with a writeFile that
\* exited 0 without stderr data resolves only in a step after which the file
\* at writeFile holds the concatenated stdout chunks.
C11_StdinWrittenAndFileBeforeResolve ==
    [][/\ Len(execs') = Len(execs) + 1 =>
            LET new == execs'[Len(execs')] IN
            /\ new.stdinWritten = req[new.r].stdin
            /\ new.stdinEnded = (req[new.r].stdin # Undefined)
       /\ \A e \in Execs :
            (/\ execs[e].promise.state = "pending"
             /\ execs'[e].promise.state = "resolved"
             /\ execs[e].writeFile # Undefined)
            => /\ execs[e].closed /\ execs[e].code = 0 /\ execs[e].errs = <<>>
               /\ existsSync(fs', execs[e].writeFile)
               /\ fs'[execs[e].writeFile] = Flatten(execs[e].result)
               /\ execs'[e].promise.data = Flatten(execs[e].result)]_vars

\* an execution that wrote a payload to stdin resolved after writing two
\* stdout chunks to its writeFile
C11_Witness ==
    \E e \in Execs :
        /\ execs[e].stdinWritten # Undefined
        /\ execs[e].stdinEnded
        /\ execs[e].writeFile = PathOut
        /\ execs[e].promise.state = "resolved"
        /\ Len(execs[e].result) = 2
        /\ existsSync(fs, PathOut)
        /\ fs[PathOut] = Flatten(execs[e].result)

\* C12: an execution without stderr data whose write to writeFile failed is
\* rejected with the I/O error; it is not resolved with the output buffer.
C12_WriteFailureRejects ==
    \A e \in Execs : (execs[e].wrote = "failed" /\ execs[e].errs = <<>>) =>
        /\ execs[e].promise.state = "rejected"
        /\ execs[e].promise.kind = "error"
        /\ execs[e].promise.data = WriteError

\* the write of an execution that received stdout data failed
C12_Witness ==
    \E e \in Execs :
        /\ execs[e].wrote = "failed"
        /\ execs[e].errs = <<>>
        /\ execs[e].result # <<>>
        /\ execs[e].code = 0

\* the arguments a page-range operation is to append for the token list l
RangePushed(keyword, l) == [req EXCEPT ![1].args = @ \o <<Str(keyword)>> \o l]

\* the property of C13 for the token lists of the set L: each of the two
\* forms of the call appends the keyword and then each token of the list
RangeFormsAgree(L) ==
    \A l \in L :
        /\ (cat(1, StrArg(Join(l, " "))) \/ cat(1, ArrArg(l)))
               => req' = RangePushed("cat", l)
        /\ (shuffle(1, StrArg(Join(l, " "))) \/ shuffle(1, ArrArg(l)))
               => req' = RangePushed("shuffle", l)
        /\ (rotate(1, StrArg(Join(l, " "))) \/ rotate(1, ArrArg(l)))
               => req' = RangePushed("rotate", l)

TmpSet(r) == {req[r].tmpFiles[i] : i \in 1..Len(req[r].tmpFiles)}

\* no execution of Request r has received stderr data or closed
NoTerminalEvent(r) ==
    \A e \in Execs : execs[e].r = r => (execs[e].errs = <<>> /\ ~execs[e].closed)

\* the step is a call on Request r or an event of one of its executions
StepOf(r) ==
    \/ call'[r] # call[r]
    \/ \E e \in Execs : execs[e].r = r /\ execs'[e] # execs[e]

\* C14: of two Requests constructed each from its own Buffer and executed
\* concurrently, a step of one (a call on it, or a stdout, stderr or close
\* event of its execution) leaves the other's args, postArgs, stdin and
\* tmpFiles, the other's executions and the other's temp files as they were;
\* the two hold different temp files; and the temp files of a Request exist
\* as long as none of its executions has had a stderr or close event.
C14_RequestsIsolated ==
    [][\A r \in Reqs : \A o \in Reqs \ {r} :
          /\ StepOf(r) =>
                /\ req'[o] = req[o]
                /\ \A e \in Execs : execs[e].r = o => execs'[e] = execs[e]
                /\ \A p \in TmpSet(o) : existsSync(fs, p) => existsSync(fs', p)
          /\ (TmpSet(r) \cap TmpSet(o))' = {}
          /\ (req[r].st = "ok" /\ NoTerminalEvent(r))'
                => (\A p \in TmpSet(r) : existsSync(fs, p))']_vars

\* the execution of Request 1 resolved and deleted its temp file while the
\* execution of Request 2 is running with its temp file in place
C14_Witness ==
    /\ Len(execs) = 2
    /\ execs[1].r = 1 /\ execs[2].r = 2
    /\ execs[1].promise.state = "resolved"
    /\ req[1].tmpFiles # <<>> /\ \A p \in TmpSet(1) : ~existsSync(fs, p)
    /\ ~execs[2].closed /\ execs[2].errs = <<>>
    /\ req[1].stdin # Undefined /\ req[2].stdin = Undefined
    /\ req[2].postArgs # <<>> /\ req[1].postArgs = <<>>
    /\ req[2].tmpFiles # <<>> /\ \A p \in TmpSet(2) : existsSync(fs, p)

RECURSIVE InfoKeysOf(_)
\* the keys of an info text: what follows each 'InfoKey: '
InfoKeysOf(buf) ==
    IF Len(buf) < 2 THEN <<>>
    ELSE (IF buf[1] = "InfoKey: " THEN <<buf[2]>> ELSE <<>>) \o InfoKeysOf(Tail(buf))

\* the info text is made of perEntry newline-terminated lines for each entry
\* of m, the blocks in the order of the entries
InfoTextOf(buf, m, perEntry) ==
    /\ Count("\n", buf) = perEntry * Len(m)
    /\ m # <<>> => buf[Len(buf)] = "\n"
    /\ InfoKeysOf(buf) = [i \in 1..Len(m) |-> m[i][1][1]]

\* no key and no value of m holds a newline
NoNewline(m) == \A i \in 1..Len(m) : Count("\n", m[i][1] \o m[i][2]) = 0

\* C15 as stated: for every key/value mapping the info text given to the
\* child is exactly 5 x |mapping| newline-terminated lines, one block per
\* entry in insertion order.
C15_FiveLinesPerEntry ==
    [][\A m \in Mappings :
          (updateInfo(1, ObjArg(m)) \/ updateInfoUtf8(1, ObjArg(m)))
              => InfoTextOf(req'[1].stdin, m, 5)]_vars

\* C15, amended: for every key/value mapping whose keys and values hold no
\* newline the info text is exactly 3 x |mapping| newline-terminated lines
\* (InfoBegin, InfoKey: <key>, InfoValue: <value>), one block per entry in
\* insertion order.
C15_ThreeLinesPerEntry ==
    [][\A m \in Mappings :
          ((updateInfo(1, ObjArg(m)) \/ updateInfoUtf8(1, ObjArg(m))) /\ NoNewline(m))
              => InfoTextOf(req'[1].stdin, m, 3)]_vars

\* the info text of a two-entry mapping is the stdin payload
C15_Witness ==
    /\ req[1].stdin = generateInfoFromJSON(
           << <<Str("Title"), Str("Report")>>, <<Str("Author"), Str("Ann")>> >>)
    /\ Count("\n", req[1].stdin) = 6
    /\ req[1].args = <<PathA, Str("update_info"), Str("-")>>

\* C16: every execution whose child closes eventually reports an outcome:
\* its promise is resolved or rejected.
C16_ClosedLeadsToOutcome ==
    \A n \in 1..MaxExecs :
        (n <= Len(execs) /\ execs[n].closed) ~> (n <= Len(execs) /\ Settled(n))

\* s is an initial segment of t
IsPrefix(s, t) == Len(s) <= Len(t) /\ SubSeq(t, 1, Len(s)) = s

\* C17: when output is called a second time on a Request with no other call
\* in between, the vector of the second spawn is the vector of the first
\* followed by 'output', the destination of the second call and the trailing
\* arguments again.
C17_SecondVectorExtendsFirst ==
    \A e1, e2 \in Execs :
        (/\ execs[e1].r = execs[e2].r
         /\ execs[e1].nth = 1 /\ execs[e2].nth = 2
         /\ execs[e2].kw = <<>>
         /\ execs[e2].leafSnap = execs[e1].leafSnap
         /\ execs[e2].flagSnap = execs[e1].flagSnap)
        => execs[e2].argv =
               execs[e1].argv
               \o <<Str("output"),
                    IF execs[e2].dest.type = "undefined" THEN Str("-")
                    ELSE execs[e2].dest.val>>
               \o execs[e2].flagSnap

\* output was called twice in a row on a Request with a trailing argument,
\* the second time with a destination
C17_Witness ==
    /\ Len(execs) = 2
    /\ execs[1].kw = <<>> /\ execs[2].kw = <<>>
    /\ execs[1].flagSnap # <<>> /\ execs[2].flagSnap = execs[1].flagSnap
    /\ execs[2].leafSnap = execs[1].leafSnap
    /\ execs[2].dest.type = "string"
    /\ Count(Str("output"), execs[2].argv) = 2

\* the keywords of the operations that read their file from stdin
StdinCommands ==
    {Str("fill_form"), Str("background"), Str("multibackground"), Str("stamp"),
     Str("multistamp"), Str("update_info"), Str("update_info_utf8")}

RECURSIVE StdinPairs(_)
\* the stdin-command keywords of args that are followed by '-', in order
StdinPairs(args) ==
    IF Len(args) < 2 THEN <<>>
    ELSE (IF args[1] \in StdinCommands /\ args[2] = Str("-") THEN <<args[1]>> ELSE <<>>)
         \o StdinPairs(Tail(args))

\* C18: after stdin-command operations on a Request the stdin payload is the
\* payload of the last of them only, and args holds the keyword of each
\* followed by '-', in call order.
C18_LastPayloadWins ==
    \A r \in Reqs : call[r].stdins # <<>> =>
        /\ req[r].stdin = call[r].payload
        /\ StdinPairs(req[r].args) = call[r].stdins

\* stamp with the file b.pdf and then background with a Buffer were called
C18_Witness ==
    /\ call[1].stdins = <<Str("stamp"), Str("background")>>
    /\ call[1].payload = Str("bg")
    /\ req[1].stdin = Str("bg")
    /\ fs[PathB] # Str("bg")

\* C19: every step (a builder operation or a terminal call) leaves the
\* previous contents of args as an initial segment of args, and the sources
\* given at construction are an initial segment of args.
C19_ArgsAppendOnly ==
    [][\A r \in Reqs :
          /\ req[r].st = "ok" => IsPrefix(req[r].args, req'[r].args)
          /\ req'[r].st = "ok" => IsPrefix(req'[r].src, req'[r].args)]_vars

\* args grew by a leaf operation and then by two terminal calls
C19_Witness ==
    /\ Len(execs) = 2
    /\ call[1].leaf # <<>>
    /\ Len(execs[1].argv) > Len(req[1].src) + 2
    /\ Len(req[1].args) > Len(execs[1].argv)
    /\ req[1].src # <<>>

WhiteSpace == {" ", "\t"}

RECURSIVE WsTokensFrom(_, _)
\* the non-empty tokens of s between runs of whitespace, cur being the token
\* read so far
WsTokensFrom(s, cur) ==
    IF s = <<>> THEN (IF cur = <<>> THEN <<>> ELSE <<cur>>)
    ELSE IF Head(s) \in WhiteSpace
         THEN (IF cur = <<>> THEN <<>> ELSE <<cur>>) \o WsTokensFrom(Tail(s), <<>>)
         ELSE WsTokensFrom(Tail(s), cur \o <<Head(s)>>)

\* the strings given to the page-range operations that hold a token
RangeStrings == SpacedStrings \cup {Join(l, " ") : l \in TokenLists \ {<<>>}}

\* C21: cat, shuffle and rotate given a string append the keyword and then
\* exactly the non-empty tokens of the string between runs of whitespace,
\* each as its own element, and no empty-string element.
C21_SplitOnWhitespace ==
    [][\A s \in RangeStrings :
          /\ cat(1, StrArg(s)) => req' = RangePushed("cat", WsTokensFrom(s, <<>>))
          /\ shuffle(1, StrArg(s)) => req' = RangePushed("shuffle", WsTokensFrom(s, <<>>))
          /\ rotate(1, StrArg(s)) => req' = RangePushed("rotate", WsTokensFrom(s, <<>>))]_vars

\* C22: an execution that reported Failed (rejected, on stderr data or on a
\* non-zero exit code) has written no file at its writeFile path.
C22_NoFileWhenFailed ==
    \A e \in Execs :
        (execs[e].promise.state = "rejected" /\ execs[e].promise.kind \in {"buffer", "code"})
            => execs[e].wrote # "ok"

\* C23: the temp set of a Request holds only paths PdfTk.input created for it
\* from Buffers, and the caller's file under a directory named with the
\* marker is never deleted.
C23_TmpFilesAreMaterialized ==
    /\ \A r \in Reqs : \A i \in 1..Len(req[r].tmpFiles) :
          \E j \in 1..Len(call[r].made) : call[r].made[j] = req[r].tmpFiles[i]
    /\ existsSync(fs, PathUserTmp)

====
